---- MODULE Spec2Model ----
(***************************************************************************)
(* PuzzleSolver: the search drivers of puzzle_tools.py (depth_first_solve, *)
(* dfs, breadth_first_solve, bfs, reconstruct_path, PuzzleNode) run over   *)
(* the puzzles of the repository (MNPuzzle, GridPegSolitairePuzzle) and    *)
(* over small arbitrary implementations of the Puzzle interface.           *)
(*                                                                         *)
(* One behaviour is one run of a main program in the style of              *)
(* mn_puzzle.py lines 231-236: breadth_first_solve(puzzle), then           *)
(* depth_first_solve(puzzle), on the same initial puzzle.                  *)
(***************************************************************************)
EXTENDS Integers, Sequences, FiniteSets, TLC

VARIABLES
    puzzle,     \* the initial puzzle handed to both drivers
    graph,      \* the behaviour of an arbitrary Puzzle subclass (kind "abs")
    pc,         \* position of the main program
    nodes,      \* every PuzzleNode created by the running search, by identity
    frontier,   \* dfs: stack (top is the last element); bfs: deque (left is the first element)
    visited,    \* the set visited of the running dfs/bfs
    solution,   \* the PuzzleNode dfs/bfs returned to its solver (None before)
    node,       \* reconstruct_path's parameter node
    result,     \* what breadth_first_solve / depth_first_solve returned
    hist,       \* history of the running search: the nodes popped, the puzzle methods called
    hash_order, \* this process's iteration order of the set `legal` of WordLadderPuzzle.extensions
    previous,   \* what the solvers returned when the main program ran them before
    heap        \* the list objects of a peg solitaire grid, by address (ObjectSpec)

vars == <<puzzle, graph, pc, nodes, frontier, visited, solution, node, result, hist,
          hash_order, previous, heap>>

\* ------------------------------------------------------------------ bounds

\* An arbitrary puzzle has at most MaxEdges moves in all (so at most
\* MaxEdges + 1 states reachable from its initial state).
MaxEdges == 3

\* The grids handed to MNPuzzle and GridPegSolitairePuzzle on their own have
\* at most MaxSide rows and at most MaxSide columns.
MaxSide == 3

\* A grid of several rows handed to GridPegSolitairePuzzle on its own holds
\* at most MaxPegs pegs.
MaxPegs == 3

\* ------------------------------------------------------------ Python values

\* Python's None where a node (an index into nodes) is expected.
None == 0

Last(s) == s[Len(s)]

Front(s) == SubSeq(s, 1, Len(s) - 1)

Range(s) == {s[i] : i \in 1..Len(s)}

\* ----------------------------------------------- an arbitrary Puzzle subclass
\* States are 1..n, state 1 is the initial one.  graph.ext[s] is the list
\* extensions() returns in state s, graph.solved the states where is_solved()
\* is True, graph.ff those where fail_fast() is True, graph.render[s] what
\* str() returns.

\* Lists of pairwise distinct states of 1..n, of length at most m.
Lists(n, m) ==
    UNION {{l \in [1..k -> 1..n] : \A i, j \in 1..k : i < j => l[i] # l[j]} : k \in 0..m}

\* The states of l not among 1..seen appear in l as seen+1, seen+2, ...
InOrder(l, seen) ==
    \A i \in 1..Len(l) :
        l[i] > seen => l[i] = seen + 1 + Cardinality({j \in 1..(i-1) : l[j] > seen})

NewCount(l, seen) == Cardinality({i \in 1..Len(l) : l[i] > seen})

\* The extension tables of states k..n, given that 1..seen have been
\* discovered and that `left` moves are left: every state is reachable from
\* state 1, and states are numbered in their order of discovery (each
\* puzzle appears once, not once per renaming of its states).
RECURSIVE GenExt(_, _, _, _)
GenExt(k, seen, left, n) ==
    IF k = n + 1 THEN (IF seen = n THEN {<< >>} ELSE {})
    ELSE IF k > seen THEN {}
    ELSE UNION {{<<l>> \o rest :
                   rest \in GenExt(k + 1, seen + NewCount(l, seen), left - Len(l), n)} :
                l \in {x \in Lists(n, left) : InOrder(x, seen)}}

\* At most one state with fail_fast() True, and a collision-free render; or
\* no fail_fast() and exactly two states that render the same.
Graphs ==
    UNION {
      {[n |-> n, ext |-> e, solved |-> so, ff |-> f, render |-> r] :
          e \in GenExt(1, 1, MaxEdges, n),
          so \in SUBSET (1..n),
          f \in {{}} \cup {{s} : s \in 1..n},
          r \in {[s \in 1..n |-> s]}}
      \cup
      {[n |-> n, ext |-> e, solved |-> so, ff |-> {},
        render |-> [s \in 1..n |-> IF s = c[2] THEN c[1] ELSE s]] :
          e \in GenExt(1, 1, MaxEdges, n),
          so \in SUBSET (1..n),
          c \in {x \in (1..n) \X (1..n) : x[1] < x[2]}}
      : n \in 1..(MaxEdges + 1)}

\* Two puzzles beyond MaxEdges.  FailFastDetour: the short way to the solved
\* state 5 leads through state 2, which fails fast.  CollisionDetour: states
\* 2 and 3 render the same, 2 is the long way to the solved state 5 and 3
\* the short one.
FailFastDetour ==
    [n |-> 5, ext |-> << <<2, 3>>, <<5>>, <<4>>, <<5>>, << >> >>,
     solved |-> {5}, ff |-> {2}, render |-> [s \in 1..5 |-> s]]

CollisionDetour ==
    [n |-> 5, ext |-> << <<2, 3>>, <<4>>, <<5>>, <<5>>, << >> >>,
     solved |-> {5}, ff |-> {}, render |-> [s \in 1..5 |-> IF s = 3 THEN 2 ELSE s]]

NoGraph == [n |-> 0, ext |-> << >>, solved |-> {}, ff |-> {}, render |-> << >>]

AbsPuzzle(s) == [kind |-> "abs", id |-> s]

\* ------------------------------------------------------------ Python strings
\* A Python str is the sequence of its characters.

Star == <<"*">>

Dot == <<".">>

Hash == <<"#">>

\* sep.join(strs)
RECURSIVE join(_, _)
join(sep, strs) ==
    IF strs = << >> THEN << >>
    ELSE IF Len(strs) = 1 THEN strs[1]
    ELSE strs[1] \o sep \o join(sep, Tail(strs))

\* The __str__ of MNPuzzle and of GridPegSolitairePuzzle: each row joined
\* with "", the rows joined with a newline.
grid_str(grid) == join(<<"\n">>, [r \in 1..Len(grid) |-> join(<< >>, grid[r])])

\* A location is a Python tuple (row, column), counted from 0.
At(grid, loc) == grid[loc[1] + 1][loc[2] + 1]

SetAt(grid, loc, v) == [grid EXCEPT ![loc[1] + 1][loc[2] + 1] = v]

\* [x for x in xs if keep(x)] for a set `keep` of kept positions of xs.
RECURSIVE FilterAt(_, _, _)
FilterAt(xs, keep, i) ==
    IF i > Len(xs) THEN << >>
    ELSE (IF i \in keep THEN <<xs[i]>> ELSE << >>) \o FilterAt(xs, keep, i + 1)

\* ------------------------------------------------------------------ MNPuzzle

MNPuzzle(from_grid, to_grid) ==
    [kind |-> "mn", n |-> Len(from_grid), m |-> Len(from_grid[1]),
     from_grid |-> from_grid, to_grid |-> to_grid]

\* Fault: row 0 and column 0 are taken to be outside the grid.
is_valid_location_from_1(location, rows, columns) ==
    /\ 0 < location[1] /\ location[1] < rows
    /\ 0 < location[2] /\ location[2] < columns

is_valid_location(location, rows, columns) ==
    /\ 0 <= location[1] /\ location[1] < rows
    /\ 0 <= location[2] /\ location[2] < columns

\* The position of the first elem of the grid: the first row holding it,
\* and its first column in that row (the model's grids hold it).
find_first(grid, elem) ==
    LET row == CHOOSE r \in 1..Len(grid) :
                   /\ elem \in Range(grid[r])
                   /\ \A q \in 1..(r - 1) : elem \notin Range(grid[q])
        column == CHOOSE c \in 1..Len(grid[row]) :
                   /\ grid[row][c] = elem
                   /\ \A d \in 1..(c - 1) : grid[row][d] # elem
    IN  <<row - 1, column - 1>>

\* Fault: any() where all() is meant.
equal_grids_any(grid1, grid2) ==
    LET k == IF Len(grid1) < Len(grid2) THEN Len(grid1) ELSE Len(grid2)
    IN  \E i \in 1..k : grid1[i] = grid2[i]

\* all([a == b for a, b in zip(grid1, grid2)]): zip stops at the shorter grid.
equal_grids(grid1, grid2) ==
    LET k == IF Len(grid1) < Len(grid2) THEN Len(grid1) ELSE Len(grid2)
    IN  \A i \in 1..k : grid1[i] = grid2[i]

MNPuzzle_swap(p, empty, symbol) ==
    MNPuzzle(SetAt(SetAt(p.from_grid, empty, At(p.from_grid, symbol)), symbol, Star),
             p.to_grid)

MNPuzzle_extensions(p) ==
    LET empty == find_first(p.from_grid, Star)
        row == empty[1]
        col == empty[2]
        candidates == << <<row, col + 1>>, <<row, col - 1>>,
                         <<row + 1, col>>, <<row - 1, col>> >>
        valid_swap_locations ==
            FilterAt(candidates,
                     {i \in 1..4 : is_valid_location(candidates[i], p.n, p.m)}, 1)
    IN  [i \in 1..Len(valid_swap_locations) |->
            MNPuzzle_swap(p, empty, valid_swap_locations[i])]

MNPuzzle_is_solved(p) == equal_grids(p.from_grid, p.to_grid)

MNPuzzle_str(p) == grid_str(p.from_grid)

MNPuzzle_eq(p, q) ==
    /\ p.kind = q.kind
    /\ equal_grids(p.from_grid, q.from_grid)
    /\ equal_grids(p.to_grid, q.to_grid)

\* ---------------------------------------------------- GridPegSolitairePuzzle

GridPegSolitairePuzzle(marker, marker_set) ==
    [kind |-> "peg", marker |-> marker, marker_set |-> marker_set]

\* find_all(grid, elem): the positions of elem, row by row, left to right.
RECURSIVE find_all_from(_, _, _, _)
find_all_from(grid, elem, row, column) ==
    IF row >= Len(grid) THEN << >>
    ELSE IF column >= Len(grid[row + 1]) THEN find_all_from(grid, elem, row + 1, 0)
    ELSE (IF At(grid, <<row, column>>) = elem THEN << <<row, column>> >> ELSE << >>)
         \o find_all_from(grid, elem, row, column + 1)

find_all(grid, elem) == find_all_from(grid, elem, 0, 0)

\* Fault: every cell that is not empty counts as a peg.
GridPeg_has_peg_not_empty(p, location) == At(p.marker, location) # Dot

GridPeg_has_peg(p, location) == At(p.marker, location) = Star

\* Whether jump(start, empty) returns a puzzle (and not None).
GridPeg_can_jump(p, start, empty) ==
    LET over == <<(start[1] + empty[1]) \div 2, (start[2] + empty[2]) \div 2>>
    IN  /\ is_valid_location(start, Len(p.marker), Len(p.marker[1]))
        /\ GridPeg_has_peg(p, start)
        /\ GridPeg_has_peg(p, over)

\* Fault: the peg that was jumped over stays on the grid.
GridPeg_jump_keeps_over(p, start, empty) ==
    GridPegSolitairePuzzle(SetAt(SetAt(p.marker, start, Dot), empty, Star), p.marker_set)

\* The puzzle jump(start, empty) returns when it returns one.
GridPeg_jump(p, start, empty) ==
    LET over == <<(start[1] + empty[1]) \div 2, (start[2] + empty[2]) \div 2>>
    IN  GridPegSolitairePuzzle(
            SetAt(SetAt(SetAt(p.marker, start, Dot), empty, Star), over, Dot),
            p.marker_set)

GridPeg_eq(p, q) ==
    /\ p.kind = q.kind
    /\ p.marker = q.marker
    /\ p.marker_set = q.marker_set

\* The loop over potential_jumps for the empty cell `space`, from the i-th
\* on, appending to the list acc.
RECURSIVE GridPeg_try_jumps(_, _, _, _, _)
GridPeg_try_jumps(p, space, jumps, i, acc) ==
    IF i > Len(jumps) THEN acc
    ELSE LET gpsp == GridPeg_jump(p, jumps[i], space)
         IN  IF /\ GridPeg_can_jump(p, jumps[i], space)
                /\ \A k \in 1..Len(acc) : ~GridPeg_eq(gpsp, acc[k])
             THEN GridPeg_try_jumps(p, space, jumps, i + 1, Append(acc, gpsp))
             ELSE GridPeg_try_jumps(p, space, jumps, i + 1, acc)

\* The loop over the empty cells, from the i-th on.
RECURSIVE GridPeg_extend(_, _, _, _)
GridPeg_extend(p, spaces, i, acc) ==
    IF i > Len(spaces) THEN acc
    ELSE LET row == spaces[i][1]
             col == spaces[i][2]
             potential_jumps == << <<row - 2, col>>, <<row + 2, col>>,
                                   <<row, col - 2>>, <<row, col + 2>> >>
         IN  GridPeg_extend(p, spaces, i + 1,
                 GridPeg_try_jumps(p, spaces[i], potential_jumps, 1, acc))

GridPeg_extensions(p) == GridPeg_extend(p, find_all(p.marker, Dot), 1, << >>)

GridPeg_is_solved(p) == Len(find_all(p.marker, Star)) = 1

GridPeg_str(p) == grid_str(p.marker)

\* ---------------------------------------------------------- WordLadderPuzzle

\* self._chars
Chars ==
    <<"a", "b", "c", "d", "e", "f", "g", "h", "i", "j", "k", "l", "m",
      "n", "o", "p", "q", "r", "s", "t", "u", "v", "w", "x", "y", "z">>

WordLadderPuzzle(from_word, to_word, ws) ==
    [kind |-> "wl", from_word |-> from_word, to_word |-> to_word, word_set |-> ws]

\* Fault: from_word[:i] + d + from_word[i:], the letter is inserted.
WordLadder_new_inserted(from_word, i, d) ==
    SubSeq(from_word, 1, i) \o <<d>> \o SubSeq(from_word, i + 1, Len(from_word))

\* from_word[:i] + d + from_word[i+1:], i counted from 0.
WordLadder_new(from_word, i, d) ==
    SubSeq(from_word, 1, i) \o <<d>> \o SubSeq(from_word, i + 2, Len(from_word))

\* Fault: the test new != from_word is missing.
WordLadder_is_legal_any(p, new) == new \in p.word_set

\* new != from_word and new in ws (new not in legal: legal is a set).
WordLadder_is_legal(p, new) == new # p.from_word /\ new \in p.word_set

\* The set legal at the end of the two loops.
WordLadder_legal(p) ==
    {new \in {WordLadder_new(p.from_word, i, Chars[k]) :
                 i \in 0..(Len(p.from_word) - 1), k \in 1..Len(Chars)} :
        WordLadder_is_legal(p, new)}

\* The orders in which a for loop may go through the set S.
SetOrders(S) ==
    {o \in [1..Cardinality(S) -> S] : \A i, j \in 1..Cardinality(S) : i < j => o[i] # o[j]}

\* [WordLadderPuzzle(word, to_word, ws) for word in legal]: the words of
\* legal in the order this process goes through that set.
WordLadder_extensions(p) ==
    LET legal == WordLadder_legal(p)
        order == hash_order[p.from_word]
        words == FilterAt(order, {i \in 1..Len(order) : order[i] \in legal}, 1)
    IN  [i \in 1..Len(words) |-> WordLadderPuzzle(words[i], p.to_word, p.word_set)]

WordLadder_is_solved(p) == p.from_word = p.to_word

WordLadder_str(p) == p.from_word \o <<" ", "-", ">", " ">> \o p.to_word

WordLadder_eq(p, q) ==
    /\ p.kind = q.kind
    /\ p.from_word = q.from_word
    /\ p.to_word = q.to_word
    /\ p.word_set = q.word_set

\* The from_words of the puzzles reachable from p.
RECURSIVE WordLadder_closure(_, _, _)
WordLadder_closure(p, level, seen) ==
    IF level = {} THEN seen
    ELSE LET next == UNION {WordLadder_legal(WordLadderPuzzle(w, p.to_word, p.word_set)) :
                               w \in level} \ seen
         IN  WordLadder_closure(p, next, seen \cup next)

\* Every way this process may order the set legal of each word of ws_left.
RECURSIVE HashOrdersOf(_, _)
HashOrdersOf(p, ws_left) ==
    IF ws_left = {} THEN {<< >>}
    ELSE LET w == CHOOSE x \in ws_left : TRUE
         IN  {(w :> o) @@ f :
                 o \in SetOrders(WordLadder_legal(WordLadderPuzzle(w, p.to_word, p.word_set))),
                 f \in HashOrdersOf(p, ws_left \ {w})}

HashOrders(p) == HashOrdersOf(p, WordLadder_closure(p, {p.from_word}, {p.from_word}))

\* No WordLadderPuzzle is involved.
NoOrder == << >>

\* ------------------------------------------------------- the Puzzle interface

\* fail_fast() of a puzzle class that does not override it.
Puzzle_fail_fast(p) == FALSE

\* curr_puzzle.extensions(), dispatched on the class of the puzzle.
extensions(p) ==
    CASE p.kind = "abs" ->
           [i \in 1..Len(graph.ext[p.id]) |-> AbsPuzzle(graph.ext[p.id][i])]
      [] p.kind = "mn" -> MNPuzzle_extensions(p)
      [] p.kind = "peg" -> GridPeg_extensions(p)
      [] p.kind = "wl" -> WordLadder_extensions(p)

\* curr_puzzle.is_solved()
is_solved(p) ==
    CASE p.kind = "abs" -> p.id \in graph.solved
      [] p.kind = "mn" -> MNPuzzle_is_solved(p)
      [] p.kind = "peg" -> GridPeg_is_solved(p)
      [] p.kind = "wl" -> WordLadder_is_solved(p)

\* curr_puzzle.fail_fast()
fail_fast(p) ==
    CASE p.kind = "abs" -> p.id \in graph.ff
      [] OTHER -> Puzzle_fail_fast(p)

\* str(curr_puzzle)
str(p) ==
    CASE p.kind = "abs" -> graph.render[p.id]
      [] p.kind = "mn" -> MNPuzzle_str(p)
      [] p.kind = "peg" -> GridPeg_str(p)
      [] p.kind = "wl" -> WordLadder_str(p)

\* ------------------------------------------------------------- PuzzleNode

\* PuzzleNode(puzzle, children, parent) with children None: an empty list.
PuzzleNode(p, parent) == [puzzle |-> p, parent |-> parent, children |-> << >>]

\* The nodes dfs/bfs create for the extensions of node cur, one per
\* extension, in the order of extensions().
ExtNodes(cur) ==
    LET exts == extensions(nodes[cur].puzzle)
    IN  [i \in 1..Len(exts) |-> PuzzleNode(exts[i], cur)]

\* The new nodes (by index, in creation order) that are put in the
\* frontier: those whose str() is not in v.
RECURSIVE Pushed(_, _, _, _)
Pushed(newNodes, base, v, i) ==
    IF i > Len(newNodes) THEN << >>
    ELSE (IF str(newNodes[i].puzzle) \notin v THEN <<base + i>> ELSE << >>)
         \o Pushed(newNodes, base, v, i + 1)

\* A solver's return value: None, or the root node (nodes[1]) together with
\* the nodes that exist at that time; solution remembers which node the
\* search had found.
Pending == [status |-> "pending", nodes |-> << >>, solution |-> None]

ReturnedNone == [status |-> "None", nodes |-> << >>, solution |-> None]

ReturnedRoot(ns, sol) == [status |-> "root", nodes |-> ns, solution |-> sol]

\* History of a search: the nodes popped so far, in order, and the calls of
\* is_solved / fail_fast / extensions so far, each with the node whose
\* puzzle received it.
NoHistory == [popped |-> << >>, calls |-> << >>]

Record(n, ops) ==
    [popped |-> Append(hist.popped, n),
     calls |-> hist.calls \o [i \in 1..Len(ops) |-> [op |-> ops[i], node |-> n]]]

\* --------------------------------------------------------------- the drivers

\* Fault: the key is never added to visited.
visited_add_forgotten(v, key) == v

\* visited.add(curr_puzzle_str)
visited_add(v, key) == v \cup {key}

\* Fault: visited is not created anew by a call (a set shared by the calls).
visited_shared == visited

\* visited = set()
visited_init == {}

\* breadth_first_solve: root = PuzzleNode(puzzle, None, None); bfs(root)
\* starts with visited = set(), queue = deque([start_node]).
breadth_first_solve ==
    /\ pc = "main_bfs"
    /\ nodes' = <<PuzzleNode(puzzle, None)>>
    /\ frontier' = <<1>>
    /\ visited' = visited_init
    /\ solution' = None
    /\ node' = None
    /\ hist' = NoHistory
    /\ pc' = "bfs"
    /\ UNCHANGED <<heap, hash_order, previous, puzzle, graph, result>>

\* Fault: popleft() where pop() is meant (the deque becomes a stack).
queue_popleft(q) == [elem |-> Head(q), rest |-> Tail(q)]

\* deque.pop(): removes and returns the rightmost element.
queue_pop(q) == [elem |-> Last(q), rest |-> Front(q)]

\* Fault: queue.append(x), the new nodes are put at the end pop() takes from.
queue_append(q, xs) == q \o xs

\* Fault: the new nodes are put at the right end, the first one outermost
\* (the deque becomes a stack that serves the first extension first).
RECURSIVE queue_append_reversed(_, _)
queue_append_reversed(q, xs) ==
    IF xs = << >> THEN q ELSE Append(queue_append_reversed(q, Tail(xs)), Head(xs))

\* queue.appendleft(x) for each x of xs in turn.
RECURSIVE queue_appendleft(_, _)
queue_appendleft(q, xs) ==
    IF xs = << >> THEN q ELSE queue_appendleft(<<Head(xs)>> \o q, Tail(xs))

\* Fault: bfs without its fail_fast() test.
bfs_branch_no_fail_fast(p, v) ==
    IF str(p) \in v THEN "continue_visited"
    ELSE IF is_solved(p) THEN "return"
    ELSE "expand"

\* Fault: bfs tests is_solved() before it looks the key up in visited.
bfs_branch_solved_first(p, v) ==
    IF is_solved(p) THEN "return"
    ELSE IF str(p) \in v THEN "continue_visited"
    ELSE IF fail_fast(p) THEN "continue_fail_fast"
    ELSE "expand"

\* What bfs does with a popped puzzle p when visited is v: the if chain of
\* its loop body.
bfs_branch(p, v) ==
    IF str(p) \in v THEN "continue_visited"
    ELSE IF is_solved(p) THEN "return"
    ELSE IF fail_fast(p) THEN "continue_fail_fast"
    ELSE "expand"

\* bfs, one iteration of the while loop: the popped node's str is in visited.
bfs_continue_visited ==
    /\ pc = "bfs"
    /\ frontier # << >>
    /\ LET popped == queue_pop(frontier)
       IN  /\ bfs_branch(nodes[popped.elem].puzzle, visited) = "continue_visited"
           /\ frontier' = popped.rest
           /\ hist' = Record(popped.elem, << >>)
    /\ UNCHANGED <<heap, hash_order, previous, puzzle, graph, pc, nodes, visited, solution, node, result>>

\* bfs, one iteration: the popped node is solved and is returned; the
\* solver calls reconstruct_path(solution).
bfs_return_solved ==
    /\ pc = "bfs"
    /\ frontier # << >>
    /\ LET popped == queue_pop(frontier)
           curr == nodes[popped.elem].puzzle
       IN  /\ bfs_branch(curr, visited) = "return"
           /\ visited' = visited_add(visited, str(curr))
           /\ frontier' = popped.rest
           /\ solution' = popped.elem
           /\ node' = popped.elem
           /\ hist' = Record(popped.elem, <<"is_solved">>)
           /\ pc' = "bfs_reconstruct"
    /\ UNCHANGED <<heap, hash_order, previous, puzzle, graph, nodes, result>>

\* bfs, one iteration: the popped node fails fast and is dropped.
bfs_continue_fail_fast ==
    /\ pc = "bfs"
    /\ frontier # << >>
    /\ LET popped == queue_pop(frontier)
           curr == nodes[popped.elem].puzzle
       IN  /\ bfs_branch(curr, visited) = "continue_fail_fast"
           /\ visited' = visited_add(visited, str(curr))
           /\ frontier' = popped.rest
           /\ hist' = Record(popped.elem, <<"is_solved", "fail_fast">>)
    /\ UNCHANGED <<heap, hash_order, previous, puzzle, graph, pc, nodes, solution, node, result>>

\* bfs, one iteration: the popped node is expanded.
bfs_expand ==
    /\ pc = "bfs"
    /\ frontier # << >>
    /\ LET popped == queue_pop(frontier)
           curr == nodes[popped.elem].puzzle
           newNodes == ExtNodes(popped.elem)
       IN  /\ bfs_branch(curr, visited) = "expand"
           /\ visited' = visited_add(visited, str(curr))
           /\ nodes' = nodes \o newNodes
           /\ frontier' = queue_appendleft(popped.rest,
                              Pushed(newNodes, Len(nodes), visited', 1))
           /\ hist' = Record(popped.elem, <<"is_solved", "fail_fast", "extensions">>)
    /\ UNCHANGED <<heap, hash_order, previous, puzzle, graph, pc, solution, node, result>>

\* bfs leaves the loop with an empty queue and returns None;
\* breadth_first_solve returns None.
bfs_return_None ==
    /\ pc = "bfs"
    /\ frontier = << >>
    /\ result' = [result EXCEPT !.bfs = ReturnedNone]
    /\ pc' = "main_dfs"
    /\ UNCHANGED <<heap, hash_order, previous, puzzle, graph, nodes, frontier, visited, solution, node, hist>>

\* depth_first_solve: root = PuzzleNode(puzzle, None, None); dfs(root)
\* starts with visited = set(), stack = [start_node].
depth_first_solve ==
    /\ pc = "main_dfs"
    /\ nodes' = <<PuzzleNode(puzzle, None)>>
    /\ frontier' = <<1>>
    /\ visited' = visited_init
    /\ solution' = None
    /\ node' = None
    /\ hist' = NoHistory
    /\ pc' = "dfs"
    /\ UNCHANGED <<heap, hash_order, previous, puzzle, graph, result>>

\* Fault: stack.pop(0), the oldest node is removed.
stack_pop_first(s) == [elem |-> Head(s), rest |-> Tail(s)]

\* Fault: stack[-1] where stack.pop() is meant (the node stays on the stack).
stack_peek(s) == [elem |-> Last(s), rest |-> s]

\* list.pop(): removes and returns the last element.
stack_pop(s) == [elem |-> Last(s), rest |-> Front(s)]

\* stack.append(x) for each x of xs in turn.
stack_append(s, xs) == s \o xs

\* Fault: dfs without its fail_fast() test.
dfs_branch_no_fail_fast(p, v) ==
    IF str(p) \in v THEN "continue_visited"
    ELSE IF is_solved(p) THEN "return"
    ELSE "expand"

\* Fault: dfs tests fail_fast() before is_solved().
dfs_branch_fail_fast_first(p, v) ==
    IF str(p) \in v THEN "continue_visited"
    ELSE IF fail_fast(p) THEN "continue_fail_fast"
    ELSE IF is_solved(p) THEN "return"
    ELSE "expand"

\* Fault: dfs without its test of visited on the popped node.
dfs_branch_no_visited_test(p, v) ==
    IF is_solved(p) THEN "return"
    ELSE IF fail_fast(p) THEN "continue_fail_fast"
    ELSE "expand"

\* What dfs does with a popped puzzle p when visited is v: the if chain of
\* its loop body.
dfs_branch(p, v) ==
    IF str(p) \in v THEN "continue_visited"
    ELSE IF is_solved(p) THEN "return"
    ELSE IF fail_fast(p) THEN "continue_fail_fast"
    ELSE "expand"

\* dfs, one iteration of the while loop: the popped node's str is in visited.
dfs_continue_visited ==
    /\ pc = "dfs"
    /\ frontier # << >>
    /\ LET popped == stack_pop(frontier)
       IN  /\ dfs_branch(nodes[popped.elem].puzzle, visited) = "continue_visited"
           /\ frontier' = popped.rest
           /\ hist' = Record(popped.elem, << >>)
    /\ UNCHANGED <<heap, hash_order, previous, puzzle, graph, pc, nodes, visited, solution, node, result>>

\* dfs, one iteration: the popped node is solved and is returned; the
\* solver calls reconstruct_path(solution).
dfs_return_solved ==
    /\ pc = "dfs"
    /\ frontier # << >>
    /\ LET popped == stack_pop(frontier)
           curr == nodes[popped.elem].puzzle
       IN  /\ dfs_branch(curr, visited) = "return"
           /\ visited' = visited_add(visited, str(curr))
           /\ frontier' = popped.rest
           /\ solution' = popped.elem
           /\ node' = popped.elem
           /\ hist' = Record(popped.elem, <<"is_solved">>)
           /\ pc' = "dfs_reconstruct"
    /\ UNCHANGED <<heap, hash_order, previous, puzzle, graph, nodes, result>>

\* dfs, one iteration: the popped node fails fast and is dropped.
dfs_continue_fail_fast ==
    /\ pc = "dfs"
    /\ frontier # << >>
    /\ LET popped == stack_pop(frontier)
           curr == nodes[popped.elem].puzzle
       IN  /\ dfs_branch(curr, visited) = "continue_fail_fast"
           /\ visited' = visited_add(visited, str(curr))
           /\ frontier' = popped.rest
           /\ hist' = Record(popped.elem, <<"is_solved", "fail_fast">>)
    /\ UNCHANGED <<heap, hash_order, previous, puzzle, graph, pc, nodes, solution, node, result>>

\* dfs, one iteration: the popped node is expanded.
dfs_expand ==
    /\ pc = "dfs"
    /\ frontier # << >>
    /\ LET popped == stack_pop(frontier)
           curr == nodes[popped.elem].puzzle
           newNodes == ExtNodes(popped.elem)
       IN  /\ dfs_branch(curr, visited) = "expand"
           /\ visited' = visited_add(visited, str(curr))
           /\ nodes' = nodes \o newNodes
           /\ frontier' = stack_append(popped.rest,
                              Pushed(newNodes, Len(nodes), visited', 1))
           /\ hist' = Record(popped.elem, <<"is_solved", "fail_fast", "extensions">>)
    /\ UNCHANGED <<heap, hash_order, previous, puzzle, graph, pc, solution, node, result>>

\* dfs leaves the loop with an empty stack and returns None;
\* depth_first_solve returns None.
dfs_return_None ==
    /\ pc = "dfs"
    /\ frontier = << >>
    /\ result' = [result EXCEPT !.dfs = ReturnedNone]
    /\ pc' = "done"
    /\ UNCHANGED <<heap, hash_order, previous, puzzle, graph, nodes, frontier, visited, solution, node, hist>>

\* Fault: node.children = [node.parent], the link set on the wrong node.
link_child_reversed(ns, n) == [ns EXCEPT ![n].children = <<ns[n].parent>>]

\* node.parent.children = [node]
link_child(ns, n) == [ns EXCEPT ![ns[n].parent].children = <<n>>]

\* reconstruct_path, one iteration of its loop:
\* node.parent.children = [node]; node = node.parent.
reconstruct_path ==
    /\ pc \in {"bfs_reconstruct", "dfs_reconstruct"}
    /\ nodes[node].parent # None
    /\ nodes' = link_child(nodes, node)
    /\ node' = nodes[node].parent
    /\ UNCHANGED <<heap, hash_order, previous, puzzle, graph, pc, frontier, visited, solution, result, hist>>

\* reconstruct_path is over (node.parent is None): the solver returns root.
return_root ==
    /\ pc \in {"bfs_reconstruct", "dfs_reconstruct"}
    /\ nodes[node].parent = None
    /\ result' = IF pc = "bfs_reconstruct"
                 THEN [result EXCEPT !.bfs = ReturnedRoot(nodes, solution)]
                 ELSE [result EXCEPT !.dfs = ReturnedRoot(nodes, solution)]
    /\ pc' = IF pc = "bfs_reconstruct" THEN "main_dfs" ELSE "done"
    /\ UNCHANGED <<heap, hash_order, previous, puzzle, graph, nodes, frontier, visited, solution, node, hist>>

\* ------------------------------------------------------------ specification

InitAbs ==
    /\ graph \in Graphs \cup {FailFastDetour, CollisionDetour}
    /\ puzzle = AbsPuzzle(1)

\* The sliding-tile puzzle of mn_puzzle.py's main program.
ScenarioA ==
    MNPuzzle(<< <<Star, <<"2">>, <<"3">> >>, << <<"1">>, <<"4">>, <<"5">> >> >>,
             << << <<"1">>, <<"2">>, <<"3">> >>, << <<"4">>, <<"5">>, Star>> >>)

\* The peg solitaire row of the doctests of the two solvers.
ScenarioB ==
    GridPegSolitairePuzzle(<< <<Dot, Star, Dot, Star, Hash>> >>, {Star, Dot, Hash})

InitMN ==
    /\ graph = NoGraph
    /\ puzzle \in {ScenarioA}

InitPeg ==
    /\ graph = NoGraph
    /\ puzzle \in {ScenarioB}

\* The word set of Scenarios C and D: it holds two ladders from "same" to
\* "cost" (over came, case, cast and over sane, cane, case, cast), a word
\* with a letter outside a-z and a word of another length.
Dictionary ==
    {<<"c", "a", "m", "e">>, <<"s", "a", "n", "e">>, <<"c", "a", "n", "e">>,
     <<"c", "a", "s", "e">>, <<"c", "a", "s", "t">>, <<"c", "o", "s", "t">>,
     <<"s", "a", "m", "é">>, <<"a", "l", "l">>}

ScenarioC ==
    WordLadderPuzzle(<<"s", "a", "m", "e">>, <<"s", "a", "m", "e">>, Dictionary)

ScenarioD ==
    WordLadderPuzzle(<<"s", "a", "m", "e">>, <<"c", "o", "s", "t">>, Dictionary)

InitWL ==
    /\ graph = NoGraph
    /\ puzzle \in {ScenarioC, ScenarioD}
    /\ hash_order \in HashOrders(puzzle)

Init ==
    /\ \/ (InitAbs \/ InitMN \/ InitPeg) /\ hash_order = NoOrder
       \/ InitWL
    /\ previous = << >>
    /\ heap = << >>
    /\ pc = "main_bfs"
    /\ nodes = << >>
    /\ frontier = << >>
    /\ visited = {}
    /\ solution = None
    /\ node = None
    /\ result = [bfs |-> Pending, dfs |-> Pending]
    /\ hist = NoHistory

Next ==
    \/ breadth_first_solve
    \/ bfs_continue_visited
    \/ bfs_return_solved
    \/ bfs_continue_fail_fast
    \/ bfs_expand
    \/ bfs_return_None
    \/ depth_first_solve
    \/ dfs_continue_visited
    \/ dfs_return_solved
    \/ dfs_continue_fail_fast
    \/ dfs_expand
    \/ dfs_return_None
    \/ reconstruct_path
    \/ return_root

Spec == Init /\ [][Next]_vars

\* The main program runs the two solvers on the same initial puzzle once
\* more; what they returned the first time is kept for comparison.
main_again ==
    /\ pc = "done"
    /\ previous = << >>
    /\ previous' = <<result>>
    /\ result' = [bfs |-> Pending, dfs |-> Pending]
    /\ pc' = "main_bfs"
    /\ UNCHANGED <<heap, puzzle, graph, hash_order, nodes, frontier, visited, solution, node, hist>>

NextRepeat == Next \/ main_again

RepeatSpec == Init /\ [][NextRepeat]_vars

\* ------------------------------------------------ what the claims speak about

\* The nodes of a returned chain: from node i, following the first child
\* link while there is one (at most fuel times).
RECURSIVE Walk(_, _, _)
Walk(ns, i, fuel) ==
    IF ns[i].children = << >> \/ fuel = 0 THEN <<i>>
    ELSE <<i>> \o Walk(ns, ns[i].children[1], fuel - 1)

Chain(r) == Walk(r.nodes, 1, Len(r.nodes))

ChainLen(r) == Len(Chain(r))

\* The number of parent links from node i up to the root.
RECURSIVE Depth(_, _)
Depth(ns, i) == IF ns[i].parent = None THEN 0 ELSE 1 + Depth(ns, ns[i].parent)

\* The puzzles reachable from the initial puzzle by moves of extensions().
RECURSIVE ReachFrom(_, _)
ReachFrom(level, seen) ==
    IF level = {} THEN seen
    ELSE LET next == UNION {Range(extensions(p)) : p \in level} \ seen
         IN  ReachFrom(next, seen \cup next)

Reachable == ReachFrom({puzzle}, {puzzle})

\* str() tells the reachable puzzles apart.
CollisionFree == Cardinality({str(p) : p \in Reachable}) = Cardinality(Reachable)

\* The least number of moves from a puzzle of `level` (reached in d moves)
\* to a solved puzzle, -1 when there is none; with prune, only along paths
\* whose puzzles before the last do not fail fast.
RECURSIVE SolvedDepth(_, _, _, _)
SolvedDepth(level, seen, d, prune) ==
    IF level = {} THEN -1
    ELSE IF \E p \in level : is_solved(p) THEN d
    ELSE LET open == IF prune THEN {p \in level : ~fail_fast(p)} ELSE level
             next == UNION {Range(extensions(p)) : p \in open} \ seen
         IN  SolvedDepth(next, seen \cup next, d + 1, prune)

MinMoves == SolvedDepth({puzzle}, {puzzle}, 0, FALSE)

MinLiveMoves == SolvedDepth({puzzle}, {puzzle}, 0, TRUE)

BfsReturned == result.bfs.status # "pending"

DfsReturned == result.dfs.status # "pending"

\* ------------------------------------------------------------------- claims

\* C1 as stated: whenever breadth_first_solve returns a chain, the chain has
\* (least number of moves to any solved state reachable through
\* extensions()) + 1 states.
C1_AsStated ==
    (pc = "main_dfs" /\ result.bfs.status = "root") =>
        ChainLen(result.bfs) = MinMoves + 1

\* C1, amended: when str() is collision-free on the reachable puzzles, a
\* chain returned by breadth_first_solve has (least number of moves to a
\* solved state along paths whose states before the last do not fail
\* fast) + 1 states, and the node bfs returned lies at that depth.
C1_BfsMinimumLength ==
    (pc = "main_dfs" /\ result.bfs.status = "root" /\ CollisionFree) =>
        /\ ChainLen(result.bfs) = MinLiveMoves + 1
        /\ Depth(result.bfs.nodes, result.bfs.solution) = MinLiveMoves

\* C1's case: a collision-free puzzle whose shortest way to a solved state
\* is cut by fail_fast(), and breadth_first_solve has returned a chain.
C1_Witness ==
    /\ pc = "main_dfs"
    /\ result.bfs.status = "root"
    /\ CollisionFree
    /\ MinLiveMoves > MinMoves
    /\ ChainLen(result.bfs) >= 3

\* C2: a returned node is the root holding the initial puzzle; from it the
\* child links form a linear chain: every node but the last has exactly one
\* child, whose puzzle is among extensions() of its parent's puzzle and
\* whose parent is that node; the last node has no children, is the node
\* the search found and is solved; the chain has (depth of that node) + 1
\* nodes.
ChainWellFormed(r) ==
    LET ns == r.nodes
        ch == Chain(r)
        k == Len(ch)
    IN  /\ ns[1].puzzle = puzzle
        /\ ns[1].parent = None
        /\ \A i \in 1..(k - 1) :
             /\ ns[ch[i]].children = <<ch[i + 1]>>
             /\ ns[ch[i + 1]].parent = ch[i]
             /\ ns[ch[i + 1]].puzzle \in Range(extensions(ns[ch[i]].puzzle))
        /\ ns[ch[k]].children = << >>
        /\ ch[k] = r.solution
        /\ is_solved(ns[ch[k]].puzzle)
        /\ k = Depth(ns, r.solution) + 1

C2_ReturnedChain ==
    /\ result.bfs.status = "root" => ChainWellFormed(result.bfs)
    /\ result.dfs.status = "root" => ChainWellFormed(result.dfs)

\* C2's case: both solvers have returned chains of at least three nodes, of
\* different lengths.
C2_Witness ==
    /\ result.bfs.status = "root"
    /\ result.dfs.status = "root"
    /\ ChainLen(result.bfs) >= 3
    /\ ChainLen(result.dfs) > ChainLen(result.bfs)

\* C3: with a collision-free str(), a solver returns a chain if and only if
\* a solved puzzle is reachable along a path whose puzzles before the last
\* do not fail fast, and returns None otherwise; None is returned only with
\* an empty frontier; there is no third outcome.
C3_ChainOrNone ==
    /\ result.bfs.status \in {"pending", "root", "None"}
    /\ result.dfs.status \in {"pending", "root", "None"}
    /\ (pc = "main_dfs" /\ CollisionFree) =>
           (result.bfs.status = "root" <=> MinLiveMoves >= 0)
    /\ (pc = "done" /\ CollisionFree) =>
           (result.dfs.status = "root" <=> MinLiveMoves >= 0)
    /\ (pc = "main_dfs" /\ result.bfs.status = "None") => frontier = << >>
    /\ (pc = "done" /\ result.dfs.status = "None") => frontier = << >>
    /\ pc \in {"main_bfs", "bfs", "bfs_reconstruct"} <=> ~BfsReturned
    /\ pc = "done" <=> DfsReturned

\* C3's case: a collision-free puzzle with a solved state that is reachable,
\* but only through a state that fails fast; both solvers returned None.
C3_Witness ==
    /\ pc = "done"
    /\ CollisionFree
    /\ MinMoves >= 2
    /\ MinLiveMoves < 0
    /\ result.bfs.status = "None"
    /\ result.dfs.status = "None"

\* C4: when the initial puzzle is solved, each solver returns the root, which
\* holds the initial puzzle and has no children: a chain of length 1.
SingleNodeChain(r) ==
    /\ r.status = "root"
    /\ r.nodes[1].puzzle = puzzle
    /\ r.nodes[1].children = << >>
    /\ ChainLen(r) = 1

C4_SolvedAtStart ==
    is_solved(puzzle) =>
        /\ BfsReturned => SingleNodeChain(result.bfs)
        /\ DfsReturned => SingleNodeChain(result.dfs)

\* C4's case: the initial puzzle is solved, fails fast and has extensions,
\* and both solvers have returned.
C4_Witness ==
    /\ pc = "done"
    /\ is_solved(puzzle)
    /\ fail_fast(puzzle)
    /\ extensions(puzzle) # << >>

\* C5: when the initial puzzle is unsolved and has no extensions, each solver
\* returns None, having popped exactly one node (and never more than one).
C5_NoMoves ==
    (~is_solved(puzzle) /\ extensions(puzzle) = << >>) =>
        /\ BfsReturned => result.bfs.status = "None"
        /\ DfsReturned => result.dfs.status = "None"
        /\ pc \in {"bfs", "dfs"} => Len(hist.popped) <= 1
        /\ pc \in {"main_dfs", "done"} => Len(hist.popped) = 1

\* C5's case: an unsolved initial puzzle without extensions, both solvers
\* have returned.
C5_Witness ==
    /\ pc = "done"
    /\ ~is_solved(puzzle)
    /\ extensions(puzzle) = << >>
    /\ puzzle.kind = "abs"

\* C6: the str() keys of the puzzles of a returned chain are pairwise
\* distinct.
KeysDistinct(r) ==
    LET ch == Chain(r)
    IN  \A i, j \in 1..Len(ch) :
            i < j => str(r.nodes[ch[i]].puzzle) # str(r.nodes[ch[j]].puzzle)

C6_NoKeyRepeats ==
    /\ result.bfs.status = "root" => KeysDistinct(result.bfs)
    /\ result.dfs.status = "root" => KeysDistinct(result.dfs)

\* C6's case: str() collides on the reachable puzzles and both solvers
\* returned chains of at least three nodes.
C6_Witness ==
    /\ pc = "done"
    /\ ~CollisionFree
    /\ result.bfs.status = "root"
    /\ result.dfs.status = "root"
    /\ ChainLen(result.bfs) >= 3
    /\ ChainLen(result.dfs) >= 3

\* C7 as stated: when both solvers return a chain, the breadth-first chain
\* is not longer than the depth-first chain.
C7_AsStated ==
    (pc = "done" /\ result.bfs.status = "root" /\ result.dfs.status = "root") =>
        ChainLen(result.bfs) <= ChainLen(result.dfs)

\* C7, amended: when str() is collision-free on the reachable puzzles and
\* both solvers return a chain, the breadth-first chain is not longer than
\* the depth-first chain.
C7_BfsNotLonger ==
    (pc = "done" /\ result.bfs.status = "root" /\ result.dfs.status = "root"
        /\ CollisionFree) =>
        ChainLen(result.bfs) <= ChainLen(result.dfs)

\* C7's case: a collision-free puzzle on which the depth-first chain is
\* strictly longer than the breadth-first chain.
C7_Witness ==
    /\ pc = "done"
    /\ result.bfs.status = "root"
    /\ result.dfs.status = "root"
    /\ CollisionFree
    /\ ChainLen(result.bfs) < ChainLen(result.dfs)
    /\ puzzle.kind = "abs"

\* The number of moves of the reachable part of the puzzle.
SumMoves(ps) ==
    Cardinality(UNION {{<<p, i>> : i \in 1..Len(extensions(p))} : p \in ps})

\* The calls of extensions() of the running search, by position in hist.calls.
Expansions == {i \in 1..Len(hist.calls) : hist.calls[i].op = "extensions"}

\* The loop body of the running search has a branch to take.
LoopCanStep ==
    /\ pc \in {"main_bfs", "bfs", "bfs_reconstruct", "main_dfs", "dfs",
               "dfs_reconstruct", "done"}
    /\ (pc = "bfs" /\ frontier # << >>) =>
           bfs_branch(nodes[queue_pop(frontier).elem].puzzle, visited)
               \in {"continue_visited", "return", "continue_fail_fast", "expand"}
    /\ (pc = "dfs" /\ frontier # << >>) =>
           dfs_branch(nodes[stack_pop(frontier).elem].puzzle, visited)
               \in {"continue_visited", "return", "continue_fail_fast", "expand"}

\* The position of the main program, in the order it passes them.
PcRank ==
    CASE pc = "main_bfs" -> 0
      [] pc = "bfs" -> 1
      [] pc = "bfs_reconstruct" -> 2
      [] pc = "main_dfs" -> 3
      [] pc = "dfs" -> 4
      [] pc = "dfs_reconstruct" -> 5
      [] pc = "done" -> 6

\* A step moves the main program on, or is an iteration of the search loop
\* that pops one node, or an iteration of reconstruct_path's loop that
\* moves node one link closer to the root.
Progresses ==
    \/ PcRank' > PcRank
    \/ /\ pc' = pc
       /\ pc \in {"bfs", "dfs"}
       /\ Len(hist'.popped) = Len(hist.popped) + 1
    \/ /\ pc' = pc
       /\ pc \in {"bfs_reconstruct", "dfs_reconstruct"}
       /\ Depth(nodes', node') < Depth(nodes, node)

\* No key is expanded twice; the nodes popped and those waiting are at most
\* the root and one per extension of an expanded node, hence a search pops
\* at most 1 + (number of moves of the reachable puzzles) nodes.
PopsBounded ==
    /\ Cardinality({str(nodes[hist.calls[i].node].puzzle) : i \in Expansions})
           = Cardinality(Expansions)
    /\ pc \in {"bfs", "dfs"} =>
           Len(hist.popped) + Len(frontier)
               <= 1 + SumMoves({nodes[hist.calls[i].node].puzzle : i \in Expansions})
    /\ pc \in {"main_dfs", "done"} => Len(hist.popped) <= 1 + SumMoves(Reachable)

\* C8: the loops of dfs and bfs end.  The loop body is never stuck, every
\* step progresses (an iteration of a search loop pops one node), and the
\* number of nodes a search pops is bounded: no key is expanded twice and
\* an expansion pushes at most one node per extension.
C8_Terminates == [](LoopCanStep /\ PopsBounded) /\ [][Progresses]_vars

\* C8's case: a search that popped a node whose key was already visited (the
\* puzzle has two ways to one key) has ended.
C8_Witness ==
    /\ pc = "done"
    /\ Len(hist.popped) > Cardinality({hist.calls[i].node : i \in 1..Len(hist.calls)})

\* C9 as stated: on Scenario A breadth_first_solve returns a chain of
\* length 3.
C9_AsStated ==
    (puzzle = ScenarioA /\ BfsReturned) =>
        (result.bfs.status = "root" /\ ChainLen(result.bfs) = 3)

\* C9, amended: on Scenario A breadth_first_solve returns a chain of
\* length 4 (three moves).
C9_ScenarioA ==
    (puzzle = ScenarioA /\ BfsReturned) =>
        (result.bfs.status = "root" /\ ChainLen(result.bfs) = 4)

\* C9's case: breadth_first_solve has returned on Scenario A.
C9_Witness ==
    /\ puzzle = ScenarioA
    /\ pc = "main_dfs"
    /\ result.bfs.status = "root"

\* C10: the row of Scenario B is unsolved and has no extensions, and both
\* solvers return None on it.
C10_ScenarioB ==
    puzzle = ScenarioB =>
        /\ ~is_solved(puzzle)
        /\ extensions(puzzle) = << >>
        /\ BfsReturned => result.bfs.status = "None"
        /\ DfsReturned => result.dfs.status = "None"

\* C10's case: both solvers have returned on Scenario B.
C10_Witness ==
    /\ puzzle = ScenarioB
    /\ pc = "done"
    /\ BfsReturned
    /\ DfsReturned

\* Words u and w are one single-letter change apart: same length, they
\* differ in exactly one position, and w has a letter of a-z there.
OneLetterApart(u, w) ==
    /\ Len(u) = Len(w)
    /\ Cardinality({i \in 1..Len(u) : u[i] # w[i]}) = 1
    /\ \A i \in 1..Len(u) : u[i] # w[i] => w[i] \in Range(Chars)

\* The least number of single-letter changes that lead from a word of
\* `level` (reached in d changes) to the word `to` through words of ws;
\* -1 when there is no such chain.
RECURSIVE LadderDepth(_, _, _, _, _)
LadderDepth(level, seen, d, to, ws) ==
    IF level = {} THEN -1
    ELSE IF to \in level THEN d
    ELSE LET next == {w \in ws \ seen : \E u \in level : OneLetterApart(u, w)}
         IN  LadderDepth(next, seen \cup next, d + 1, to, ws)

ShortestLadder(p) ==
    LadderDepth({p.from_word}, {p.from_word}, 0, p.to_word, p.word_set)

\* The from_words of the puzzles of a returned chain.
ChainWords(r) == [i \in 1..ChainLen(r) |-> r.nodes[Chain(r)[i]].puzzle.from_word]

\* The chain starts at p's from_word, consecutive words are one
\* single-letter change apart, every word after the first is in the word
\* set, and the last word is to_word.
ValidLadder(p, words) ==
    /\ words[1] = p.from_word
    /\ \A i \in 1..(Len(words) - 1) : OneLetterApart(words[i], words[i + 1])
    /\ \A i \in 2..Len(words) : words[i] \in p.word_set
    /\ Last(words) = p.to_word

Terminal(r) == r.nodes[Last(Chain(r))].puzzle

\* Two return values of a solver are the same outcome: both None, or
\* chains of the same length that end in the same state.
SameOutcome(a, b) ==
    /\ a.status = b.status
    /\ a.status = "root" =>
          /\ ChainLen(a) = ChainLen(b)
          /\ Terminal(a) = Terminal(b)

\* C12: a second invocation of a solver on the same initial puzzle starts
\* with an empty visited set and a frontier that holds only the root, and
\* returns what the first invocation returned: a chain of the same length
\* with the same last state, or None again.
C12_Determinism ==
    previous # << >> =>
        /\ (pc \in {"bfs", "dfs"} /\ hist = NoHistory) =>
              /\ visited = {}
              /\ frontier = <<1>>
              /\ nodes = <<PuzzleNode(puzzle, None)>>
        /\ BfsReturned => SameOutcome(previous[1].bfs, result.bfs)
        /\ DfsReturned => SameOutcome(previous[1].dfs, result.dfs)

\* C12's case: both solvers have been run twice on a puzzle on which the
\* first run of each returned a chain of more than one state.
C12_Witness ==
    /\ previous # << >>
    /\ pc = "done"
    /\ previous[1].bfs.status = "root"
    /\ previous[1].dfs.status = "root"
    /\ ChainLen(result.bfs) >= 3
    /\ ChainLen(result.dfs) >= 3
    /\ puzzle.kind = "wl"

\* ----------------------------------------- the puzzle methods on their own
\* A caller constructs one puzzle and calls one of its methods: the methods
\* are applied to more puzzles than the two searches above ever reach.

\* The symbols of the cells of a sliding-tile grid, besides "*".
Symbols ==
    <<"1", "2", "3", "4", "5", "6", "7", "8", "9", "A", "B", "C", "D", "E", "F", "G",
      "H", "I", "J", "K", "L", "M", "N", "O">>

\* The n x m grid with "*" as its k-th cell, row by row, and the first
\* n*m - 1 symbols in order in the other cells.
TileGrid(n, m, k) ==
    [r \in 1..n |-> [c \in 1..m |->
        LET idx == (r - 1) * m + c
        IN  IF idx = k THEN Star
            ELSE <<Symbols[IF idx < k THEN idx ELSE idx - 1]>>]]

FromGrids ==
    UNION {{TileGrid(n, m, k) : k \in 1..(n * m)} : n \in 1..MaxSide, m \in 1..MaxSide}

\* The target grids tried with from_grid g, all admitted by the
\* assertions of MNPuzzle.__init__: g itself, g solved, g with its first
\* row once more at the end, g without its last row, g without its last
\* column, and the empty tuple.
ToGrids(g) ==
    {g,
     TileGrid(Len(g), Len(g[1]), Len(g) * Len(g[1])),
     g \o <<g[1]>>,
     Front(g),
     [r \in 1..Len(g) |-> Front(g[r])],
     << >>}

MNInputs == UNION {{MNPuzzle(g, t) : t \in ToGrids(g)} : g \in FromGrids}

\* The rows of up to MaxSide + 1 cells over ".", "*" and "#", as grids of
\* one row.
PegRows ==
    UNION {{<<row>> : row \in [1..k -> {Dot, Star, Hash}]} : k \in 1..(MaxSide + 1)}

\* The n x m grids of ".", with "*" in the cells (counted row by row) of
\* pegs.
PegGrid(n, m, pegs) ==
    [r \in 1..n |-> [c \in 1..m |-> IF (r - 1) * m + c \in pegs THEN Star ELSE Dot]]

PegGrids ==
    UNION {{PegGrid(n, m, pegs) :
               pegs \in {x \in SUBSET (1..(n * m)) : Cardinality(x) <= MaxPegs}} :
           n \in 2..MaxSide, m \in 1..MaxSide}

PegInputs == {GridPegSolitairePuzzle(g, {Star, Dot, Hash}) : g \in PegRows \cup PegGrids}

\* The words of the doctest of WordLadderPuzzle.extensions.
WordUniverse ==
    {<<"s", "a", "m", "e">>, <<"s", "o", "m", "e">>, <<"t", "a", "m", "e">>,
     <<"s", "a", "n", "e">>, <<"s", "a", "m", "é">>, <<"a", "l", "l">>}

\* Any of those words but one as from_word, "cost" as to_word, any set of
\* those words as the word set.
WLInputs ==
    {WordLadderPuzzle(w, <<"c", "o", "s", "t">>, ws) :
        w \in WordUniverse \ {<<"t", "a", "m", "e">>}, ws \in SUBSET WordUniverse}

InitPure ==
    /\ \/ puzzle \in MNInputs \cup PegInputs /\ hash_order = NoOrder
       \/ /\ puzzle \in WLInputs
          /\ hash_order \in HashOrdersOf(puzzle, {puzzle.from_word})
    /\ graph = NoGraph
    /\ pc = "call"
    /\ nodes = << >>
    /\ frontier = << >>
    /\ visited = {}
    /\ solution = None
    /\ node = None
    /\ result = [op |-> "none"]
    /\ hist = NoHistory
    /\ previous = << >>
    /\ heap = << >>

\* puzzle.extensions()
call_extensions ==
    /\ pc = "call"
    /\ result' = [op |-> "extensions", value |-> extensions(puzzle)]
    /\ pc' = "returned"
    /\ UNCHANGED <<heap, puzzle, graph, hash_order, nodes, frontier, visited, solution, node,
                   hist, previous>>

\* puzzle.is_solved()
call_is_solved ==
    /\ pc = "call"
    /\ result' = [op |-> "is_solved", value |-> is_solved(puzzle)]
    /\ pc' = "returned"
    /\ UNCHANGED <<heap, puzzle, graph, hash_order, nodes, frontier, visited, solution, node,
                   hist, previous>>

NextPure == call_extensions \/ call_is_solved

PureSpec == InitPure /\ [][NextPure]_vars

\* extensions() has returned.
ExtensionsReturned == pc = "returned" /\ result.op = "extensions"

\* The locations of a grid.
Locations(grid) == {<<r, c>> : r \in 0..(Len(grid) - 1), c \in 0..(Len(grid[1]) - 1)}

\* The locations next to loc (left, right, above, below) inside the grid.
Neighbours(grid, loc) ==
    {x \in Locations(grid) :
        \/ x[1] = loc[1] /\ (x[2] = loc[2] + 1 \/ x[2] = loc[2] - 1)
        \/ x[2] = loc[2] /\ (x[1] = loc[1] + 1 \/ x[1] = loc[1] - 1)}

\* The locations where two grids of the same shape differ.
DiffCells(g, h) == {x \in Locations(g) : At(g, x) # At(h, x)}

\* How often symbol v occurs in a grid.
Count(grid, v) == Cardinality({x \in Locations(grid) : At(grid, x) = v})

\* Grid h is grid g with "*" (at star) and the symbol at loc swapped.
IsSwap(g, h, star, loc) ==
    /\ Len(h) = Len(g)
    /\ \A r \in 1..Len(g) : Len(h[r]) = Len(g[r])
    /\ At(h, star) = At(g, loc)
    /\ At(h, loc) = Star
    /\ DiffCells(g, h) = {star, loc}
    /\ \A x \in Locations(g) : Count(h, At(g, x)) = Count(g, At(g, x))

\* C13: MNPuzzle.extensions() returns one puzzle per neighbour of "*"
\* inside the grid and nothing else (2 to 4 of them on grids of at least
\* 2 x 2): each is the grid with "*" and that neighbour swapped (the same
\* symbols as many times, different in exactly those two cells), with
\* to_grid unchanged.
C13_MNExtensions ==
    (ExtensionsReturned /\ puzzle.kind = "mn") =>
        LET g == puzzle.from_grid
            star == CHOOSE x \in Locations(g) : At(g, x) = Star
            exts == result.value
        IN  /\ Len(exts) = Cardinality(Neighbours(g, star))
            /\ \A loc \in Neighbours(g, star) :
                  Cardinality({i \in 1..Len(exts) :
                                  IsSwap(g, exts[i].from_grid, star, loc)}) = 1
            /\ \A i \in 1..Len(exts) :
                  /\ exts[i].kind = "mn"
                  /\ exts[i].to_grid = puzzle.to_grid
                  /\ \E loc \in Neighbours(g, star) :
                        IsSwap(g, exts[i].from_grid, star, loc)
            /\ (puzzle.n >= 2 /\ puzzle.m >= 2) => (Len(exts) >= 2 /\ Len(exts) <= 4)

\* C13's case: extensions() has returned four puzzles for a grid whose
\* "*" has all four neighbours.
C13_Witness ==
    /\ ExtensionsReturned
    /\ puzzle.kind = "mn"
    /\ Len(result.value) = 4
    /\ puzzle.from_grid # puzzle.to_grid

\* C14: WordLadderPuzzle.extensions() returns exactly one puzzle for each
\* word of the word set that is one single-letter change (to a letter of
\* a-z) away from from_word, and nothing else: no word twice, never
\* from_word, every puzzle with the same to_word and word set.
C14_WordLadderExtensions ==
    (ExtensionsReturned /\ puzzle.kind = "wl") =>
        LET exts == result.value
            near == {w \in puzzle.word_set : OneLetterApart(puzzle.from_word, w)}
        IN  /\ \A w \in near :
                  Cardinality({i \in 1..Len(exts) : exts[i].from_word = w}) = 1
            /\ \A i \in 1..Len(exts) :
                  /\ exts[i].kind = "wl"
                  /\ exts[i].from_word \in near
                  /\ exts[i].from_word # puzzle.from_word
                  /\ exts[i].to_word = puzzle.to_word
                  /\ exts[i].word_set = puzzle.word_set
            /\ Len(exts) = Cardinality(near)

\* C14's case: extensions() has returned several puzzles for a from_word
\* that is in the word set, next to a word that differs from it in a
\* letter outside a-z and a word of another length.
C14_Witness ==
    /\ ExtensionsReturned
    /\ puzzle.kind = "wl"
    /\ puzzle.word_set = WordUniverse
    /\ puzzle.from_word = <<"s", "a", "m", "e">>
    /\ Len(result.value) = 3

\* The jumps a grid allows, each as <<start, over, empty>>: empty holds
\* ".", start lies two cells from it in its row or column, inside the grid,
\* and holds a peg, and so does the cell over between them.
Jumps(g) ==
    {j \in Locations(g) \X Locations(g) \X Locations(g) :
        /\ At(g, j[3]) = Dot
        /\ At(g, j[1]) = Star
        /\ At(g, j[2]) = Star
        /\ \E d \in {<<0, 1>>, <<0, -1>>, <<1, 0>>, <<-1, 0>>} :
              /\ j[2] = <<j[3][1] + d[1], j[3][2] + d[2]>>
              /\ j[1] = <<j[3][1] + 2 * d[1], j[3][2] + 2 * d[2]>>}

\* Grid g after jump j: start and over become ".", empty becomes "*", every
\* other cell stays.
Jumped(g, j) ==
    [r \in 1..Len(g) |-> [c \in 1..Len(g[r]) |->
        IF <<r - 1, c - 1>> \in {j[1], j[2]} THEN Dot
        ELSE IF <<r - 1, c - 1>> = j[3] THEN Star
        ELSE g[r][c]]]

\* C15: GridPegSolitairePuzzle.extensions() returns exactly the grids a
\* single jump leads to, each once, with the marker set kept; a grid
\* without a jump gives the empty list.
C15_PegExtensions ==
    (ExtensionsReturned /\ puzzle.kind = "peg") =>
        LET exts == result.value
            g == puzzle.marker
        IN  /\ {exts[i].marker : i \in 1..Len(exts)} = {Jumped(g, j) : j \in Jumps(g)}
            /\ Len(exts) = Cardinality({Jumped(g, j) : j \in Jumps(g)})
            /\ \A i \in 1..Len(exts) :
                  exts[i].kind = "peg" /\ exts[i].marker_set = puzzle.marker_set
            /\ Jumps(g) = {} => exts = << >>

\* C15's case: extensions() has returned for a grid that allows a jump
\* along a row and a jump along a column.
C15_Witness ==
    /\ ExtensionsReturned
    /\ puzzle.kind = "peg"
    /\ \E j, k \in Jumps(puzzle.marker) : j[1][1] = j[3][1] /\ k[1][2] = k[3][2] /\ j # k
    /\ Len(result.value) >= 2

\* is_solved() has returned.
IsSolvedReturned == pc = "returned" /\ result.op = "is_solved"

\* C16: MNPuzzle.is_solved(), that is equal_grids(from_grid, to_grid),
\* returns True if and only if from_grid and to_grid are the same grid, for
\* every pair of grids the assertions of MNPuzzle.__init__ admit.
C16_AsStated ==
    (IsSolvedReturned /\ puzzle.kind = "mn") =>
        (result.value <=> puzzle.from_grid = puzzle.to_grid)

\* The key of node n of the running search.
KeyOf(n) == str(nodes[n].puzzle)

\* The calls of method op of the running search, by position in hist.calls.
CallsOf(op) == {i \in 1..Len(hist.calls) : hist.calls[i].op = op}

\* Each of is_solved(), fail_fast() and extensions() has been called at
\* most once per key.
OncePerKey ==
    \A op \in {"is_solved", "fail_fast", "extensions"} :
        Cardinality({KeyOf(hist.calls[i].node) : i \in CallsOf(op)})
            = Cardinality(CallsOf(op))

\* A step of a search loop pops one node.  Its key is the only key that
\* can enter visited, and it enters unless it is there already; when it is
\* there already the node is dropped and nothing else happens: no method
\* is called, no node is created or pushed.  No other step adds a key.
DedupStep ==
    IF pc \in {"bfs", "dfs"} /\ hist' # hist
    THEN LET key == KeyOf(Last(hist'.popped))
         IN  /\ visited' = visited \cup {key}
             /\ key \in visited =>
                   /\ hist'.calls = hist.calls
                   /\ nodes' = nodes
                   /\ pc' = pc
                   /\ Len(frontier') = Len(frontier) - 1
    ELSE visited' \subseteq visited

\* C17: in dfs and in bfs a key enters visited only when a node that
\* carries it is popped, never when a node is pushed; a popped node whose
\* key is in visited is dropped with nothing evaluated; and is_solved(),
\* fail_fast() and extensions() are each called at most once per key over
\* a search.
C17_Dedup == []OncePerKey /\ [][DedupStep]_vars

\* C17's case: the frontier of a search holds the same key twice, the key
\* is not in visited, and an earlier pop of that search was dropped because
\* its key was in visited.
C17_Witness ==
    /\ pc \in {"bfs", "dfs"}
    /\ \E i, j \in 1..Len(frontier) :
          /\ i < j
          /\ KeyOf(frontier[i]) = KeyOf(frontier[j])
          /\ KeyOf(frontier[i]) \notin visited
    /\ Len(hist.popped) > Cardinality({hist.calls[i].node : i \in 1..Len(hist.calls)})

\* The puzzle that received call i of hist.calls.
CallPuzzle(i) == nodes[hist.calls[i].node].puzzle

\* C18: on a popped node whose key is new, the key is in visited when the
\* methods are called; is_solved() is called first and, when True, ends the
\* search with this node; fail_fast() is called only after is_solved()
\* was False, extensions() only after fail_fast() was False.  So a state
\* that fails fast is never expanded (it has no extensions() call and is
\* no node's parent), and a state both solved and failing fast is returned.
C18_StepOrder ==
    /\ \A i \in 1..Len(hist.calls) :
          /\ KeyOf(hist.calls[i].node) \in visited
          /\ hist.calls[i].op = "is_solved" =>
                (is_solved(CallPuzzle(i)) =>
                    /\ i = Len(hist.calls)
                    /\ pc \notin {"bfs", "dfs"}
                    /\ solution = hist.calls[i].node)
          /\ hist.calls[i].op = "fail_fast" =>
                /\ i > 1
                /\ hist.calls[i - 1] = [op |-> "is_solved", node |-> hist.calls[i].node]
                /\ ~is_solved(CallPuzzle(i))
          /\ hist.calls[i].op = "extensions" =>
                /\ i > 1
                /\ hist.calls[i - 1] = [op |-> "fail_fast", node |-> hist.calls[i].node]
                /\ ~fail_fast(CallPuzzle(i))
    /\ \A n \in 1..Len(nodes) :
          nodes[n].parent # None => ~fail_fast(nodes[nodes[n].parent].puzzle)

\* C18's case: a search has returned a node, not the root, that is both
\* solved and failing fast.
C18_Witness ==
    /\ pc \in {"bfs_reconstruct", "dfs_reconstruct"}
    /\ is_solved(nodes[solution].puzzle)
    /\ fail_fast(nodes[solution].puzzle)
    /\ nodes[solution].parent # None

\* Nodes are numbered as they are created, and those of them that are
\* pushed are pushed in that order: of the nodes of a frontier the one
\* pushed last has the greatest number, the one pushed first the least.
Newest(S) == CHOOSE n \in S : \A k \in S : k <= n

Oldest(S) == CHOOSE n \in S : \A k \in S : n <= k

PushedLast(f) == Newest(Range(f))

PushedFirst(f) == Oldest(Range(f))

\* dfs has just expanded node e: e is the last node popped and the last
\* call was its extensions().
JustExpanded(e) ==
    /\ pc = "dfs"
    /\ hist.popped # << >>
    /\ Last(hist.popped) = e
    /\ hist.calls # << >>
    /\ Last(hist.calls) = [op |-> "extensions", node |-> e]

\* The nodes created for the extensions of node e.
ChildrenOf(e) == {n \in 1..Len(nodes) : nodes[n].parent = e}

\* C19 as stated: after dfs has expanded a node that has extensions, the
\* node of the extension generated last is the next node popped.
C19_AsStated ==
    \A e \in 1..Len(nodes) :
        (JustExpanded(e) /\ ChildrenOf(e) # {}) =>
            /\ frontier # << >>
            /\ stack_pop(frontier).elem = Len(nodes)

\* Every pop of dfs takes the node pushed last.
LifoStep ==
    (pc = "dfs" /\ hist' # hist) => Last(hist'.popped) = PushedLast(frontier)

\* C19, amended: dfs always pops the most recently pushed node.  After it
\* expanded a node, the next node popped is the one generated last among
\* the extensions whose key is not in visited (those are the ones pushed),
\* when there is one; and whenever a node is popped, every node pushed
\* after it has been popped already.
C19_Lifo ==
    /\ [](\A e \in 1..Len(nodes) :
            (JustExpanded(e) /\ \E n \in ChildrenOf(e) : KeyOf(n) \notin visited) =>
                /\ frontier # << >>
                /\ stack_pop(frontier).elem
                      = Newest({n \in ChildrenOf(e) : KeyOf(n) \notin visited}))
    /\ [][LifoStep]_vars

\* C19's case: dfs has expanded a node whose extension generated last has
\* a visited key, so that an extension generated earlier is on top of the
\* stack, above nodes pushed before the expansion.
C19_Witness ==
    /\ pc = "dfs"
    /\ \E e \in 1..Len(nodes) :
          /\ JustExpanded(e)
          /\ KeyOf(Len(nodes)) \in visited
          /\ nodes[Len(nodes)].parent = e
          /\ \E n \in ChildrenOf(e) : KeyOf(n) \notin visited
    /\ Len(frontier) >= 2
    /\ nodes[frontier[1]].parent # nodes[Last(frontier)].parent

\* Every pop of bfs takes, of the nodes in the queue, the one enqueued
\* first, and a node at least as deep as the node popped before it.
FifoStep ==
    (pc = "bfs" /\ hist' # hist) =>
        /\ Last(hist'.popped) = PushedFirst(frontier)
        /\ hist.popped # << >> =>
              /\ Last(hist.popped) < Last(hist'.popped)
              /\ Depth(nodes, Last(hist.popped)) <= Depth(nodes, Last(hist'.popped))

\* The depths of the nodes in the queue differ by at most 1.
QueueDepthsClose ==
    pc = "bfs" =>
        \A i, j \in 1..Len(frontier) :
            Depth(nodes, frontier[i]) <= Depth(nodes, frontier[j]) + 1

\* C20: the frontier of bfs is first in, first out: nodes are dequeued in
\* the order they were enqueued, the depths of successively dequeued nodes
\* never decrease, and the depths of the nodes in the queue differ by at
\* most 1.
C20_Fifo == []QueueDepthsClose /\ [][FifoStep]_vars

\* C20's case: the queue of bfs holds nodes of two depths, pushed by
\* different expansions, after several nodes were dequeued.
C20_Witness ==
    /\ pc = "bfs"
    /\ Len(hist.popped) >= 3
    /\ Len(frontier) >= 2
    /\ \E i, j \in 1..Len(frontier) :
          Depth(nodes, frontier[i]) = Depth(nodes, frontier[j]) + 1

\* ------------------------------------------------------------------ claim C21

\* The strict ancestors of node i: its parent, its parent's parent, ...
RECURSIVE Ancestors(_, _)
Ancestors(ns, i) ==
    IF ns[i].parent = None THEN {}
    ELSE {ns[i].parent} \cup Ancestors(ns, ns[i].parent)

\* No node has a child link.
Unlinked == \A n \in 1..Len(nodes) : nodes[n].children = << >>

\* While a loop runs, and after a search that returned None, no node has a
\* child link.
UnlinkedOutsideReconstruct ==
    /\ pc \in {"bfs", "dfs"} => Unlinked
    /\ (pc = "main_dfs" /\ result.bfs.status = "None") => Unlinked
    /\ (pc = "done" /\ result.dfs.status = "None") => Unlinked

\* reconstruct_path works on a node that is solved: it walks from that node
\* up, and the nodes linked so far are strict ancestors of it.
ReconstructFromSolved ==
    pc \in {"bfs_reconstruct", "dfs_reconstruct"} =>
        /\ solution # None
        /\ is_solved(nodes[solution].puzzle)
        /\ node \in {solution} \cup Ancestors(nodes, solution)
        /\ \A n \in 1..Len(nodes) :
              nodes[n].children # << >> => n \in Ancestors(nodes, solution)

\* One step of a search: the nodes that exist keep their puzzle and their
\* parent link; a children list changes only in reconstruct_path, and only
\* that of a strict ancestor of the solved node; a node that is created has
\* no child link; and reconstruct_path is entered with no node linked, so
\* not a second time in the same search.
LinkStep ==
    pc \notin {"main_bfs", "main_dfs", "done"} =>
        /\ Len(nodes') >= Len(nodes)
        /\ \A n \in 1..Len(nodes) :
              /\ nodes'[n].puzzle = nodes[n].puzzle
              /\ nodes'[n].parent = nodes[n].parent
              /\ nodes'[n].children # nodes[n].children =>
                    /\ pc \in {"bfs_reconstruct", "dfs_reconstruct"}
                    /\ n \in Ancestors(nodes, solution)
        /\ \A n \in (Len(nodes) + 1)..Len(nodes') : nodes'[n].children = << >>
        /\ (pc \in {"bfs", "dfs"} /\ pc' \in {"bfs_reconstruct", "dfs_reconstruct"}) =>
              Unlinked /\ is_solved(nodes[solution'].puzzle)

\* C21: nodes are linked backward only during traversal: every node that
\* dfs or bfs creates has an empty children list until reconstruct_path
\* runs; reconstruct_path runs at most once per search and only when a
\* solved node was found, and it changes only the children lists of the
\* strict ancestors of the solved node, never a puzzle, a parent link, or
\* the children of the solved node or of a node off the path; when the
\* search returns None no children list was ever modified.
C21_BackwardLinks ==
    [](UnlinkedOutsideReconstruct /\ ReconstructFromSolved) /\ [][LinkStep]_vars

\* C21's case: both searches are over; depth-first search returned a chain
\* of at least three nodes, linked by reconstruct_path, and created nodes
\* off that chain as well.
C21_Witness ==
    /\ pc = "done"
    /\ result.dfs.status = "root"
    /\ ChainLen(result.dfs) >= 3
    /\ Len(result.dfs.nodes) > ChainLen(result.dfs)
    /\ \E n \in 1..Len(nodes) :
          /\ n \notin Ancestors(nodes, solution) \cup {solution}
          /\ nodes[n].children = << >>

\* ------------------------------------------------------------------ claim C23

\* Node par was expanded: its key is in visited and its puzzle is neither
\* solved nor failing fast.
ExpandedParent(par) ==
    /\ str(nodes[par].puzzle) \in visited
    /\ ~is_solved(nodes[par].puzzle)
    /\ ~fail_fast(nodes[par].puzzle)

\* While a loop runs, every node in the frontier but the root has an
\* expanded parent.
FrontierParentsExpanded ==
    pc \in {"bfs", "dfs"} =>
        \A i \in 1..Len(frontier) :
            nodes[frontier[i]].parent # None => ExpandedParent(nodes[frontier[i]].parent)

\* In the chain of return value r, the last state is solved, and no state
\* before it is solved or fails fast.
OnlyLastSolved(r) ==
    r.status = "root" =>
        LET c == Chain(r)
        IN  /\ is_solved(r.nodes[c[Len(c)]].puzzle)
            /\ \A i \in 1..(Len(c) - 1) :
                  /\ ~is_solved(r.nodes[c[i]].puzzle)
                  /\ ~fail_fast(r.nodes[c[i]].puzzle)

\* C23: in every state of the loop of dfs and of bfs, each node in the
\* frontier other than the root has a parent whose key is in visited and
\* whose puzzle is neither solved nor fail-fast; so in a returned chain
\* only the last state satisfies is_solved(), and no state before the last
\* has fail_fast() true.
C23_FrontierInvariant ==
    /\ FrontierParentsExpanded
    /\ pc = "main_dfs" => OnlyLastSolved(result.bfs)
    /\ pc = "done" => OnlyLastSolved(result.dfs)

\* C23's case: breadth-first search returned a chain of at least three
\* states, and the stack of depth-first search holds nodes with different
\* parents, one of them below a node that is not the root.
C23_Witness ==
    /\ pc = "dfs"
    /\ result.bfs.status = "root"
    /\ ChainLen(result.bfs) >= 3
    /\ \E i, j \in 1..Len(frontier) :
          /\ nodes[frontier[i]].parent # None
          /\ nodes[frontier[j]].parent # None
          /\ nodes[frontier[i]].parent # nodes[frontier[j]].parent
          /\ nodes[nodes[frontier[i]].parent].parent # None

\* --------------------------------------------- searches on the puzzle variants
\* The main program on more puzzles of the variants than Spec starts from:
\* every peg solitaire grid of PegInputs, and a sliding-tile puzzle whose
\* tiles carry numerals of one and of two digits.

\* A 2 x 3 sliding-tile puzzle with the tiles 1, 12, 3, 11 and 2; its target
\* differs from its start by moving tiles 1 and 11, and 12 and 2, to each
\* other's cells.
NumeralTiles ==
    MNPuzzle(<< << <<"1">>, <<"1", "2">>, <<"3">> >>, << <<"1", "1">>, <<"2">>, Star>> >>,
             << << <<"1", "1">>, <<"2">>, <<"3">> >>, << <<"1">>, <<"1", "2">>, Star>> >>)

InitTiles ==
    /\ graph = NoGraph
    /\ puzzle \in {ScenarioA, NumeralTiles}

InitPegs ==
    /\ graph = NoGraph
    /\ puzzle \in PegInputs

\* A puzzle of three states: the start extends to the solved state 2 and to
\* state 3, which fails fast and is the first that depth-first search pops.
FailFastLast ==
    [n |-> 3, ext |-> << <<2, 3>>, << >>, <<2>> >>,
     solved |-> {2}, ff |-> {3}, render |-> [s \in 1..3 |-> s]]

\* The puzzles that take the fail_fast() and the visited branches of the
\* loops.
InitDetours ==
    /\ graph \in {FailFastDetour, CollisionDetour, FailFastLast}
    /\ puzzle = AbsPuzzle(1)

VariantInit ==
    /\ InitTiles \/ InitPegs \/ InitDetours
    /\ hash_order = NoOrder
    /\ previous = << >>
    /\ heap = << >>
    /\ pc = "main_bfs"
    /\ nodes = << >>
    /\ frontier = << >>
    /\ visited = {}
    /\ solution = None
    /\ node = None
    /\ result = [bfs |-> Pending, dfs |-> Pending]
    /\ hist = NoHistory

VariantSpec == VariantInit /\ [][Next]_vars

\* ------------------------------------------------------------------ claim C24

\* The number of pegs of peg solitaire puzzle p.
Pegs(p) == Count(p.marker, Star)

\* Every extension of the initial grid has one peg fewer than it; every node
\* of a search has one peg fewer than its parent, hence the initial number
\* of pegs minus its depth; and a grid without pegs is not solved.
PegCounts ==
    puzzle.kind = "peg" =>
        /\ pc = "main_bfs" =>
              \A i \in 1..Len(extensions(puzzle)) :
                  Pegs(extensions(puzzle)[i]) = Pegs(puzzle) - 1
        /\ \A n \in 1..Len(nodes) :
              /\ Pegs(nodes[n].puzzle) = Pegs(puzzle) - Depth(nodes, n)
              /\ nodes[n].parent # None =>
                    Pegs(nodes[n].puzzle) = Pegs(nodes[nodes[n].parent].puzzle) - 1
              /\ Pegs(nodes[n].puzzle) = 0 => ~is_solved(nodes[n].puzzle)
        /\ Pegs(puzzle) = 0 => ~is_solved(puzzle)

\* A chain returned for an initial grid of p pegs has p states, and p >= 1;
\* the chains of the two solvers are equally long.
PegChains ==
    (puzzle.kind = "peg" /\ pc = "done") =>
        /\ result.bfs.status = "root" =>
              Pegs(puzzle) >= 1 /\ ChainLen(result.bfs) = Pegs(puzzle)
        /\ result.dfs.status = "root" =>
              Pegs(puzzle) >= 1 /\ ChainLen(result.dfs) = Pegs(puzzle)
        /\ (result.bfs.status = "root" /\ result.dfs.status = "root") =>
              ChainLen(result.bfs) = ChainLen(result.dfs)
        /\ Pegs(puzzle) = 0 =>
              result.bfs.status = "None" /\ result.dfs.status = "None"

\* C24: every extension of a GridPegSolitairePuzzle has exactly one peg
\* fewer than its parent, so a node at depth d of a search holds the initial
\* number of pegs minus d; the search ends (no node is deeper than the
\* initial number of pegs, and every step pops a node or moves on); every
\* chain returned by either solver for an initial grid of p >= 1 pegs has
\* exactly p states, so the chains of the two solvers are equally long; and
\* a grid without pegs is never solved.
C24_PegCount ==
    [](PegCounts /\ PegChains) /\ [][puzzle.kind = "peg" => Progresses]_vars

\* C24's case: both solvers returned a chain for a grid of several rows
\* that starts with three pegs or more.
C24_Witness ==
    /\ puzzle.kind = "peg"
    /\ pc = "done"
    /\ Len(puzzle.marker) >= 2
    /\ Pegs(puzzle) >= 3
    /\ result.bfs.status = "root"
    /\ result.dfs.status = "root"
    /\ ChainLen(result.dfs) = 3

\* ------------------------------------------------------------------ claim C25

\* C25 as stated: within one search started from an MNPuzzle the key is
\* collision-free: any two states reachable from the initial state have the
\* same str() if and only if they are equal under MNPuzzle.__eq__.
C25_AsStated ==
    (puzzle.kind = "mn" /\ pc = "main_dfs") =>
        \A p, q \in Reachable : (str(p) = str(q)) <=> MNPuzzle_eq(p, q)

\* ------------------------------------------------- the list objects of a grid
\* GridPegSolitairePuzzle keeps its grid in Python lists, which can be
\* changed in place and shared.  Here the methods of the puzzle are modelled
\* on list objects: heap[a] is the list at address a, either a row (its
\* cells) or a grid (the addresses of its rows).

\* The address of self._marker.
self_marker == 1

\* The heap that holds the grid `marker` and nothing else: the list of its
\* rows at address self_marker, row r at the r-th address after it.
marker_heap(marker) == <<[r \in 1..Len(marker) |-> self_marker + r]>> \o marker

\* The grid that the list at address a holds.
grid_of(h, a) == [r \in 1..Len(h[a]) |-> h[h[a][r]]]

\* grid[location[0]][location[1]] = v, for the list grid at address a.
store(h, a, location, v) == [h EXCEPT ![h[a][location[1] + 1]][location[2] + 1] = v]

\* Fault: grid_c = self._marker[:], a new list of the same row objects.
GridPeg_grid_c_shallow(h, marker) == [heap |-> Append(h, h[marker]), address |-> Len(h) + 1]

\* grid_c = [row[:] for row in self._marker]: a new list of new rows.
GridPeg_grid_c(h, marker) ==
    LET rows == grid_of(h, marker)
    IN  [heap |-> (h \o rows) \o <<[r \in 1..Len(rows) |-> Len(h) + r]>>,
         address |-> Len(h) + Len(rows) + 1]

\* jump(start, empty) on list objects: the heap afterwards, and the address
\* of the grid of the puzzle returned (None when jump returns None).
GridPeg_jump_object(h, marker, marker_set, start, empty) ==
    LET c == GridPeg_grid_c(h, marker)
        self == GridPegSolitairePuzzle(grid_of(h, marker), marker_set)
        over == <<(start[1] + empty[1]) \div 2, (start[2] + empty[2]) \div 2>>
    IN  IF GridPeg_can_jump(self, start, empty)
        THEN [heap |-> store(store(store(c.heap, c.address, start, Dot),
                                   c.address, empty, Star),
                             c.address, over, Dot),
              address |-> c.address]
        ELSE [heap |-> c.heap, address |-> None]

\* The loop over potential_jumps on list objects; acc holds the addresses of
\* the grids of the puzzles in the list extensions.
RECURSIVE GridPeg_try_jumps_object(_, _, _, _, _, _, _)
GridPeg_try_jumps_object(h, marker, marker_set, space, jumps, i, acc) ==
    IF i > Len(jumps) THEN [heap |-> h, extensions |-> acc]
    ELSE LET gpsp == GridPeg_jump_object(h, marker, marker_set, jumps[i], space)
         IN  IF /\ gpsp.address # None
                /\ \A k \in 1..Len(acc) :
                      grid_of(gpsp.heap, gpsp.address) # grid_of(gpsp.heap, acc[k])
             THEN GridPeg_try_jumps_object(gpsp.heap, marker, marker_set, space, jumps,
                                           i + 1, Append(acc, gpsp.address))
             ELSE GridPeg_try_jumps_object(gpsp.heap, marker, marker_set, space, jumps,
                                           i + 1, acc)

\* The loop over the empty cells on list objects.
RECURSIVE GridPeg_extend_object(_, _, _, _, _, _)
GridPeg_extend_object(h, marker, marker_set, spaces, i, acc) ==
    IF i > Len(spaces) THEN [heap |-> h, extensions |-> acc]
    ELSE LET row == spaces[i][1]
             col == spaces[i][2]
             potential_jumps == << <<row - 2, col>>, <<row + 2, col>>,
                                   <<row, col - 2>>, <<row, col + 2>> >>
             tried == GridPeg_try_jumps_object(h, marker, marker_set, spaces[i],
                                               potential_jumps, 1, acc)
         IN  GridPeg_extend_object(tried.heap, marker, marker_set, spaces, i + 1,
                                   tried.extensions)

GridPeg_extensions_object(h, marker, marker_set) ==
    GridPeg_extend_object(h, marker, marker_set, find_all(grid_of(h, marker), Dot), 1, << >>)

\* A GridPegSolitairePuzzle is constructed on a grid of lists, then one of
\* its methods is called.
InitObject ==
    /\ puzzle \in PegInputs
    /\ heap = marker_heap(puzzle.marker)
    /\ graph = NoGraph
    /\ hash_order = NoOrder
    /\ pc = "call"
    /\ nodes = << >>
    /\ frontier = << >>
    /\ visited = {}
    /\ solution = None
    /\ node = None
    /\ result = [op |-> "none"]
    /\ hist = NoHistory
    /\ previous = << >>

\* puzzle.extensions(), the list objects it leaves behind included.
object_extensions ==
    /\ pc = "call"
    /\ LET r == GridPeg_extensions_object(heap, self_marker, puzzle.marker_set)
       IN  /\ heap' = r.heap
           /\ result' = [op |-> "extensions", value |-> r.extensions]
    /\ pc' = "returned"
    /\ UNCHANGED <<puzzle, graph, hash_order, nodes, frontier, visited, solution, node,
                   hist, previous>>

\* puzzle.is_solved(): it reads the grid and stores nothing.
object_is_solved ==
    /\ pc = "call"
    /\ result' = [op |-> "is_solved",
                  value |-> GridPeg_is_solved(
                      GridPegSolitairePuzzle(grid_of(heap, self_marker), puzzle.marker_set))]
    /\ pc' = "returned"
    /\ UNCHANGED <<heap, puzzle, graph, hash_order, nodes, frontier, visited, solution, node,
                   hist, previous>>

\* str(puzzle): it reads the grid and stores nothing.
object_str ==
    /\ pc = "call"
    /\ result' = [op |-> "str",
                  value |-> GridPeg_str(
                      GridPegSolitairePuzzle(grid_of(heap, self_marker), puzzle.marker_set))]
    /\ pc' = "returned"
    /\ UNCHANGED <<heap, puzzle, graph, hash_order, nodes, frontier, visited, solution, node,
                   hist, previous>>

NextObject == object_extensions \/ object_is_solved \/ object_str

ObjectSpec == InitObject /\ [][NextObject]_vars

\* ------------------------------------------------------------------ claim C22

\* The addresses of the rows of the grid at address a.
RowsOf(h, a) == Range(h[a])

\* C22: the puzzle operations are pure queries.  After extensions(),
\* is_solved() or str() was called on a GridPegSolitairePuzzle, every list
\* object of its own grid holds what it held when the puzzle was made; the
\* extensions are built on copies: no returned puzzle shares a row with the
\* puzzle or with another returned puzzle, and the grids they hold are the
\* ones that extensions() computes on values, which is what the nodes of a
\* search hold.
C22_PureQueries ==
    pc = "returned" =>
        /\ grid_of(heap, self_marker) = puzzle.marker
        /\ \A a \in 1..Len(marker_heap(puzzle.marker)) : heap[a] = marker_heap(puzzle.marker)[a]
        /\ result.op = "extensions" =>
              /\ [k \in 1..Len(result.value) |-> grid_of(heap, result.value[k])]
                     = [k \in 1..Len(extensions(puzzle)) |-> extensions(puzzle)[k].marker]
              /\ \A k \in 1..Len(result.value) :
                    /\ result.value[k] # self_marker
                    /\ RowsOf(heap, result.value[k]) \cap RowsOf(heap, self_marker) = {}
                    /\ \A l \in 1..Len(result.value) :
                          k # l => RowsOf(heap, result.value[k])
                                       \cap RowsOf(heap, result.value[l]) = {}
        /\ result.op = "is_solved" => result.value = is_solved(puzzle)
        /\ result.op = "str" => result.value = str(puzzle)

\* C22's case: extensions() was called on a grid of several rows and returned
\* two puzzles or more.
C22_Witness ==
    /\ pc = "returned"
    /\ result.op = "extensions"
    /\ Len(puzzle.marker) >= 2
    /\ Len(result.value) >= 2

====
